---------------------------- MODULE Spec2Model ----------------------------
(***************************************************************************)
(* Retouch SLA checker (src/app.py): the script that prunes a garment     *)
(* photography export, normalises its date columns, evaluates the         *)
(* per-category SLA, the advisory note, the studio residency and the      *)
(* aggregate status.                                                       *)
(*                                                                         *)
(* The data frame is a sequence of column names (cols) and a sequence of   *)
(* rows; a row carries its pandas index label (id) and the cells of the    *)
(* columns the script reads or writes.  Cells of the other columns of the  *)
(* export are never read and are not stored.  Calendar dates are day       *)
(* ordinals counted from Monday 2024-01-01 (ordinal 0).                    *)
(***************************************************************************)
EXTENDS Integers, Sequences, FiniteSets, TLC

VARIABLES pc, cols, rows, today, scan_col, scan_out_col, inferFormat, inp, run, prev

vars == <<pc, cols, rows, today, scan_col, scan_out_col, inferFormat, inp, run, prev>>

(***************************************************************************)
(* Bounds of the model.                                                    *)
(***************************************************************************)
\* the later of the two native dates a date cell of an input table may hold
LateDay == 4
\* the reference "today" is LateDay + TodayGap
TodayGap == 3
\* most rows of an input table
MaxRows == 2
\* a table of more than one row has at most MaxCells date cells
MaxCells == 4
\* most engine runs in a behaviour (the second run reads the first one's output)
MaxRuns == 2

(***************************************************************************)
(* Cells.                                                                  *)
(***************************************************************************)
NaN == [t |-> "nan", v |-> 0, s |-> ""]
NaT == [t |-> "nat", v |-> 0, s |-> ""]
Ts(d) == [t |-> "ts", v |-> d, s |-> ""]
IntCell(n) == [t |-> "int", v |-> n, s |-> ""]
Str(x) == [t |-> "str", v |-> 0, s |-> x]
\* the text "aa/bb/2024"
Txt(a, b) == [t |-> "txt", v |-> 100 * a + b, s |-> ""]

isna(x) == x.t \in {"nan", "nat"}
notna(x) == ~isna(x)

(***************************************************************************)
(* Configuration (src/app.py lines 11-12).  A column letter is the         *)
(* sequence of its characters' ord(char) - 64.                             *)
(***************************************************************************)
COLS_TO_DELETE ==
    << <<1>>, <<3>>, <<4>>, <<8>>, <<9>>, <<10>>, <<11>>, <<12>>, <<13>>, <<14>>,
       <<15>>, <<16>>, <<17>>, <<19>>, <<24>>, <<1, 2>>, <<1, 3>>, <<1, 4>>,
       <<1, 5>>, <<1, 6>>, <<1, 7>> >>

SLA_DAYS == 2

RECURSIVE Pow26(_)
Pow26(n) == IF n = 0 THEN 1 ELSE 26 * Pow26(n - 1)

RECURSIVE ColNum(_, _)
\* the loop of excel_col_to_index over reversed(col): expn counts from 0
ColNum(col, expn) ==
    IF expn = Len(col) THEN 0
    ELSE col[Len(col) - expn] * Pow26(expn) + ColNum(col, expn + 1)

excel_col_to_index(col) == ColNum(col, 0) - 1

(***************************************************************************)
(* Business days (numpy.busday_count, default week mask Mon-Fri).          *)
(***************************************************************************)
IsBusDay(d) == d % 7 < 5

busday_count(start, end) ==
    IF start <= end
    THEN Cardinality({d \in start..(end - 1) : IsBusDay(d)})
    ELSE 0 - Cardinality({d \in (end + 1)..start : IsBusDay(d)})

\* working_days_diff on two cells: NaN when either is missing
working_days_diff(start, end) ==
    IF isna(start) \/ isna(end) THEN NaN ELSE IntCell(busday_count(start.v, end.v))

(***************************************************************************)
(* pandas.to_datetime(column, errors='coerce') with the default            *)
(* dayfirst=False.                                                         *)
(***************************************************************************)
DaysInMonth == <<31, 29, 31, 30, 31, 30, 31, 31, 30, 31, 30, 31>>

ValidMD(m, d) == m \in 1..12 /\ d >= 1 /\ d <= DaysInMonth[m]

RECURSIVE DaysBefore(_)
DaysBefore(m) == IF m = 1 THEN 0 ELSE DaysInMonth[m - 1] + DaysBefore(m - 1)

\* ordinal of day d of month m of 2024
Ord(m, d) == DaysBefore(m) + d - 1

TxtA(x) == x.v \div 100
TxtB(x) == x.v % 100

\* dateutil on "aa/bb/yyyy" with dayfirst=False: the first number is the month
\* unless it is above 12; an impossible date is NaT under errors='coerce'
ParseElement(x) ==
    LET a == TxtA(x)
        b == TxtB(x)
    IN IF a > 12
       THEN IF ValidMD(b, a) THEN Ts(Ord(b, a)) ELSE NaT
       ELSE IF ValidMD(a, b) THEN Ts(Ord(a, b)) ELSE NaT

\* strptime with one format for the whole column
ParseWithFormat(x, fmt) ==
    LET a == TxtA(x)
        b == TxtB(x)
    IN IF fmt = "%m/%d/%Y"
       THEN IF ValidMD(a, b) THEN Ts(Ord(a, b)) ELSE NaT
       ELSE IF ValidMD(b, a) THEN Ts(Ord(b, a)) ELSE NaT

\* the format guessed from one text, "" when none can be guessed
GuessFormat(x) ==
    LET a == TxtA(x)
        b == TxtB(x)
    IN IF a > 12
       THEN IF ValidMD(b, a) THEN "%d/%m/%Y" ELSE ""
       ELSE IF ValidMD(a, b) THEN "%m/%d/%Y" ELSE ""

FirstNonNull(xs) ==
    IF \E i \in 1..Len(xs) : notna(xs[i])
    THEN CHOOSE i \in 1..Len(xs) : notna(xs[i]) /\ \A j \in 1..(i - 1) : isna(xs[j])
    ELSE 0

\* the format of the column: pandas >= 2 guesses it from the first non-null
\* element when that is a text; older builds parse each element on its own
ColumnFormat(xs, infer) ==
    LET i == FirstNonNull(xs)
    IN IF infer /\ i > 0 /\ xs[i].t = "txt" THEN GuessFormat(xs[i]) ELSE ""

ConvertCell(x, fmt) ==
    CASE x.t = "ts" -> x
      [] x.t = "txt" -> IF fmt = "" THEN ParseElement(x) ELSE ParseWithFormat(x, fmt)
      [] OTHER -> NaT

to_datetime(xs, infer) ==
    LET fmt == ColumnFormat(xs, infer)
    IN [i \in 1..Len(xs) |-> ConvertCell(xs[i], fmt)]

(***************************************************************************)
(* Column names.                                                           *)
(***************************************************************************)
SemCols ==
    {"Scan In Date", "Scan Out Date", "Photo Still Date", "Still Upload Date",
     "Photo Model Date", "Model Upload Date", "Photo Mannequin Date",
     "Mannequin Upload Date"}

new_cols ==
    <<"Stills Out of SLA", "Day(s) out of SLA - STILLS",
      "Model Out of SLA", "Day(s) out of SLA - MODEL",
      "Mannequin Out of SLA", "Day(s) out of SLA - MANNEQUIN",
      "Notes", "Days in Studio">>

\* the substring tests of the script on c.lower(), tabulated for the column
\* names of the model
HasScan(c) == c \in {"Scan In Date", "Scan Out Date"}
HasIn(c) ==
    c \in {"Scan In Date", "Photo Mannequin Date", "Mannequin Upload Date",
           "Mannequin Out of SLA", "Day(s) out of SLA - MANNEQUIN", "Days in Studio"}
HasOut(c) ==
    c \in {"Scan Out Date", "Stills Out of SLA", "Model Out of SLA",
           "Mannequin Out of SLA", "Day(s) out of SLA - STILLS",
           "Day(s) out of SLA - MODEL", "Day(s) out of SLA - MANNEQUIN"}
HasDate(c) == c \in SemCols

\* columns whose cells the rows store
Stored == SemCols \cup {new_cols[i] : i \in 1..Len(new_cols)} \cup {"SLA status"}

Range(s) == {s[i] : i \in 1..Len(s)}

NoCol == "-"

(***************************************************************************)
(* Input tables.  The export is 34 columns wide (A..AH); the columns the   *)
(* script reads sit at letters the pruner keeps, the others are named by   *)
(* their letter.  Any of the eight named columns may be missing.           *)
(***************************************************************************)
Letters ==
    <<"A", "B", "C", "D", "E", "F", "G", "H", "I", "J", "K", "L", "M", "N", "O",
      "P", "Q", "R", "S", "T", "U", "V", "W", "X", "Y", "Z", "AA", "AB", "AC",
      "AD", "AE", "AF", "AG", "AH">>

SlotName(i) ==
    CASE i = 2 -> "Scan Out Date"
      [] i = 5 -> "Scan In Date"
      [] i = 6 -> "Photo Still Date"
      [] i = 7 -> "Still Upload Date"
      [] i = 18 -> "Photo Model Date"
      [] i = 20 -> "Model Upload Date"
      [] i = 21 -> "Mannequin Upload Date"
      [] i = 22 -> "Photo Mannequin Date"
      [] OTHER -> ""

Export(S) ==
    [i \in 1..Len(Letters) |-> IF SlotName(i) \in S THEN SlotName(i) ELSE Letters[i]]

Days == {0, LateDay}
RawCells == {NaN} \cup {Ts(d) : d \in Days}
Todays == {LateDay + TodayGap}

\* texts "aa/bb/2024" of the date columns
TextNums == {1, 3, 4, 13, 25, 31}
TextCells == {NaN} \cup {Txt(a, b) : a \in TextNums, b \in TextNums}

MkRows(data) == [i \in 1..Len(data) |-> [id |-> i, c |-> data[i]]]

Init ==
    /\ pc = "prune"
    /\ \E S \in SUBSET SemCols : \E n \in 0..MaxRows :
          /\ IF n <= 1 THEN TRUE ELSE n * Cardinality(S) <= MaxCells
          /\ \E data \in [1..n -> [S -> RawCells]] :
                /\ cols = Export(S)
                /\ rows = MkRows(data)
                /\ inp = [cols |-> cols, rows |-> rows]
    /\ today \in Todays
    /\ scan_col = NoCol
    /\ scan_out_col = NoCol
    /\ inferFormat = TRUE
    /\ run = 1
    /\ prev = <<>>

(***************************************************************************)
(* Data frame helpers.                                                     *)
(***************************************************************************)
\* row.get(c): None (missing) when the row has no such column
Get(row, c) == IF c \in DOMAIN row.c THEN row.c[c] ELSE NaN

Column(rs, c) == [i \in 1..Len(rs) |-> rs[i].c[c]]

\* df[c] = values, for a column the frame has or gets
SetColumn(rs, c, values) ==
    [i \in 1..Len(rs) |->
        [rs[i] EXCEPT !.c = [k \in (DOMAIN rs[i].c) \cup {c} |->
                                IF k = c THEN values[i] ELSE rs[i].c[k]]]]

\* df[c] = value appends the column when the frame has none of that name
WithColumn(cs, c) == IF c \in Range(cs) THEN cs ELSE Append(cs, c)

\* next(c for c in df.columns if P(c)), NoCol for None
FirstCol(cs, P(_)) ==
    IF \E i \in 1..Len(cs) : P(cs[i])
    THEN cs[CHOOSE i \in 1..Len(cs) : P(cs[i]) /\ \A j \in 1..(i - 1) : ~P(cs[j])]
    ELSE NoCol

Convert(rs, c, infer) == SetColumn(rs, c, to_datetime(Column(rs, c), infer))

(***************************************************************************)
(* Drop columns by Excel letter (lines 111-113).                           *)
(***************************************************************************)
indices == {excel_col_to_index(COLS_TO_DELETE[k]) : k \in 1..Len(COLS_TO_DELETE)}

names_to_drop(cs) == {cs[i + 1] : i \in {j \in indices : j < Len(cs)}}

\* df.drop(columns=names_to_drop): every column of such a name goes
DropColumns(cs) ==
    LET names == names_to_drop(cs)
    IN SelectSeq(cs, LAMBDA c : c \notin names)

DropCells(rs, cs) ==
    LET left == Range(cs) \cap Stored
    IN [i \in 1..Len(rs) |-> [rs[i] EXCEPT !.c = [k \in left |-> rs[i].c[k]]]]

Prune ==
    /\ pc = "prune"
    /\ cols' = DropColumns(cols)
    /\ rows' = DropCells(rows, cols')
    /\ pc' = "resolve"
    /\ UNCHANGED <<today, scan_col, scan_out_col, inferFormat, inp, run, prev>>

(***************************************************************************)
(* Identify scan columns (lines 118-128).                                  *)
(***************************************************************************)
IsScanIn(c) == HasScan(c) /\ HasIn(c)

\* a scan-out test that forgets the 'out' substring
IsScanOut_AnyScan(c) == HasScan(c)

IsScanOut(c) == HasScan(c) /\ HasOut(c)

\* a filter that keeps every record
DropNaT_KeepAll(rs, c) == rs

\* df = df[~df[scan_col].isna()]
DropNaT(rs, c) == SelectSeq(rs, LAMBDA r : notna(r.c[c]))

ResolveStop ==
    /\ pc = "resolve"
    /\ FirstCol(cols, IsScanIn) = NoCol
    /\ pc' = "stopped"
    /\ UNCHANGED <<cols, rows, today, scan_col, scan_out_col, inferFormat, inp, run, prev>>

Resolve ==
    /\ pc = "resolve"
    /\ FirstCol(cols, IsScanIn) # NoCol
    /\ LET sc == FirstCol(cols, IsScanIn)
           so == FirstCol(cols, IsScanOut)
           kept == DropNaT(Convert(rows, sc, inferFormat), sc)
       IN /\ scan_col' = sc
          /\ scan_out_col' = so
          /\ rows' = IF so # NoCol THEN Convert(kept, so, inferFormat) ELSE kept
    /\ pc' = "addcols"
    /\ UNCHANGED <<cols, today, inferFormat, inp, run, prev>>

(***************************************************************************)
(* Add SLA columns (lines 133-140).                                        *)
(***************************************************************************)
\* the new columns initialised to the empty string
AddBlank_Empty(rs, names, k) ==
    [i \in 1..Len(rs) |->
        [rs[i] EXCEPT !.c = [c \in (DOMAIN rs[i].c) \cup Range(names) |->
                                IF c \in Range(names) THEN Str("") ELSE rs[i].c[c]]]]

RECURSIVE AddBlank(_, _, _)
\* for col in names[k..]: df[col] = np.nan, on the rows
AddBlank(rs, names, k) ==
    IF k > Len(names) THEN rs
    ELSE AddBlank(SetColumn(rs, names[k], [i \in 1..Len(rs) |-> NaN]), names, k + 1)

RECURSIVE AddNames(_, _, _)
\* the same loop on the column index
AddNames(cs, names, k) ==
    IF k > Len(names) THEN cs ELSE AddNames(WithColumn(cs, names[k]), names, k + 1)

AddColumns ==
    /\ pc = "addcols"
    /\ cols' = AddNames(cols, new_cols, 1)
    /\ rows' = AddBlank(rows, new_cols, 1)
    /\ pc' = "convert"
    /\ UNCHANGED <<today, scan_col, scan_out_col, inferFormat, inp, run, prev>>

(***************************************************************************)
(* Convert any date-like columns (lines 143-145).                          *)
(***************************************************************************)
RECURSIVE ConvertFrom(_, _, _, _)
ConvertFrom(rs, cs, k, infer) ==
    IF k > Len(cs) THEN rs
    ELSE ConvertFrom(IF HasDate(cs[k]) THEN Convert(rs, cs[k], infer) ELSE rs,
                     cs, k + 1, infer)

ConvertDates ==
    /\ pc = "convert"
    /\ rows' = ConvertFrom(rows, cols, 1, inferFormat)
    /\ pc' = "sla"
    /\ UNCHANGED <<cols, today, scan_col, scan_out_col, inferFormat, inp, run, prev>>

(***************************************************************************)
(* SLA logic (lines 150-175).                                              *)
(***************************************************************************)
sla_mapping ==
    << [prefix |-> "Stills", photo_col |-> "Photo Still Date",
        upload_col |-> "Still Upload Date",
        days_col |-> "Day(s) out of SLA - STILLS", flag_col |-> "Stills Out of SLA"],
       [prefix |-> "Model", photo_col |-> "Photo Model Date",
        upload_col |-> "Model Upload Date",
        days_col |-> "Day(s) out of SLA - MODEL", flag_col |-> "Model Out of SLA"],
       [prefix |-> "Mannequin", photo_col |-> "Photo Mannequin Date",
        upload_col |-> "Mannequin Upload Date",
        days_col |-> "Day(s) out of SLA - MANNEQUIN",
        flag_col |-> "Mannequin Out of SLA"] >>

\* the datetime.date the date picker returns
PyDate(d) == [t |-> "date", v |-> d, s |-> ""]

\* Series.fillna(today) on a datetime64 column: a datetime.date is no
\* datetime64 scalar, so the filled column is an object column holding the
\* Timestamps and, in the missing places, the date object itself
fillna(xs, d) == [i \in 1..Len(xs) |-> IF isna(xs[i]) THEN PyDate(d) ELSE xs[i]]

\* x.date() exists on a Timestamp; a datetime.date has no such attribute
HasDateMethod(x) == x.t = "ts"

\* s.date() if pd.notna(s) else np.nan, where it does not raise
DateOrNaN(x) == IF notna(x) THEN PyDate(x.v) ELSE NaN

\* np.maximum(days_diff - SLA_DAYS, 0): NaN stays NaN
OutDays(diff) ==
    IF isna(diff) THEN NaN
    ELSE IntCell(IF diff.v - SLA_DAYS > 0 THEN diff.v - SLA_DAYS ELSE 0)

\* np.where(out_days > 0, "LATE", ""): NaN > 0 is False
LateFlag(out) == IF notna(out) /\ out.v > 0 THEN Str("LATE") ELSE Str("")

\* the body of the loop for one category raises AttributeError: pd.NaT has no
\* fillna (upload column absent), or e.date() is called on a filled-in date
CategoryRaises(rs, cs, m, d) ==
    /\ m.photo_col \in Range(cs)
    /\ \/ m.upload_col \notin Range(cs)
       \/ LET eff == fillna(Column(rs, m.upload_col), d)
          IN \E i \in 1..Len(eff) : notna(eff[i]) /\ ~HasDateMethod(eff[i])

\* the body of the loop for one category, where it does not raise
Category(rs, cs, m, d) ==
    IF m.photo_col \notin Range(cs) THEN rs
    ELSE LET start == Column(rs, m.photo_col)
             eff == fillna(Column(rs, m.upload_col), d)
             out == [i \in 1..Len(rs) |->
                        OutDays(working_days_diff(DateOrNaN(start[i]), DateOrNaN(eff[i])))]
         IN SetColumn(SetColumn(rs, m.days_col, out),
                      m.flag_col, [i \in 1..Len(rs) |-> LateFlag(out[i])])

RECURSIVE SlaLoop(_, _, _, _)
\* the loop from category k on: the frame it leaves and whether it raised
SlaLoop(rs, cs, k, d) ==
    IF k > Len(sla_mapping) THEN [rows |-> rs, raised |-> FALSE]
    ELSE IF CategoryRaises(rs, cs, sla_mapping[k], d) THEN [rows |-> rs, raised |-> TRUE]
    ELSE SlaLoop(Category(rs, cs, sla_mapping[k], d), cs, k + 1, d)

SLALogic ==
    /\ pc = "sla"
    /\ ~SlaLoop(rows, cols, 1, today).raised
    /\ rows' = SlaLoop(rows, cols, 1, today).rows
    /\ pc' = "note"
    /\ UNCHANGED <<cols, today, scan_col, scan_out_col, inferFormat, inp, run, prev>>

SLALogicRaise ==
    /\ pc = "sla"
    /\ SlaLoop(rows, cols, 1, today).raised
    /\ rows' = SlaLoop(rows, cols, 1, today).rows
    /\ pc' = "sla raised"
    /\ UNCHANGED <<cols, today, scan_col, scan_out_col, inferFormat, inp, run, prev>>

(***************************************************************************)
(* Awaiting model shot note (lines 180-183).                               *)
(***************************************************************************)
NoteApplies(cs, so) == "Photo Still Date" \in Range(cs) /\ so # NoCol

NoteMask(r, so) == isna(r.c[so]) /\ notna(r.c["Photo Still Date"])

\* with no row under the mask, diff is an empty datetime64 Series and the
\* comparison diff > 2 raises TypeError
NoteRaises(rs, cs, so) ==
    NoteApplies(cs, so) /\ \A i \in 1..Len(rs) : ~NoteMask(rs[i], so)

NoteDue(r, so, d) ==
    /\ NoteMask(r, so)
    /\ working_days_diff(PyDate(r.c["Photo Still Date"].v), PyDate(d)).v > 2

SetNotes(rs, so, d) ==
    [i \in 1..Len(rs) |->
        IF NoteDue(rs[i], so, d)
        THEN [rs[i] EXCEPT !.c["Notes"] = Str("Awaiting model shot")]
        ELSE rs[i]]

AwaitingNote ==
    /\ pc = "note"
    /\ ~NoteRaises(rows, cols, scan_out_col)
    /\ rows' = IF NoteApplies(cols, scan_out_col)
               THEN SetNotes(rows, scan_out_col, today) ELSE rows
    /\ pc' = "studio"
    /\ UNCHANGED <<cols, today, scan_col, scan_out_col, inferFormat, inp, run, prev>>

AwaitingNoteRaise ==
    /\ pc = "note"
    /\ NoteRaises(rows, cols, scan_out_col)
    /\ pc' = "note raised"
    /\ UNCHANGED <<cols, rows, today, scan_col, scan_out_col, inferFormat, inp, run, prev>>

(***************************************************************************)
(* Days in studio (lines 188-207).                                         *)
(***************************************************************************)
shot_cols ==
    {"Photo Still Date", "Photo Model Date", "Photo Mannequin Date",
     "Still Upload Date", "Model Upload Date", "Mannequin Upload Date"}

\* the two scanned-out branches in the other order
compute_days_in_studio_Swapped(row, sc, so, d) ==
    LET scan_in == Get(row, sc)
        scan_out == IF so # NoCol THEN Get(row, so) ELSE NaN
        all_blank == \A c \in shot_cols : isna(Get(row, c))
    IN IF notna(scan_out) THEN Str("SCANNED OUT")
       ELSE IF notna(scan_in) /\ notna(scan_out) /\ all_blank
       THEN Str("SCANNED OUT AND NEVER SHOT")
       ELSE IF notna(scan_in) THEN working_days_diff(PyDate(scan_in.v), PyDate(d))
       ELSE NaN

compute_days_in_studio(row, sc, so, d) ==
    LET scan_in == Get(row, sc)
        scan_out == IF so # NoCol THEN Get(row, so) ELSE NaN
        all_blank == \A c \in shot_cols : isna(Get(row, c))
    IN IF notna(scan_in) /\ notna(scan_out) /\ all_blank
       THEN Str("SCANNED OUT AND NEVER SHOT")
       ELSE IF notna(scan_out) THEN Str("SCANNED OUT")
       ELSE IF notna(scan_in) THEN working_days_diff(PyDate(scan_in.v), PyDate(d))
       ELSE NaN

DaysInStudio ==
    /\ pc = "studio"
    /\ rows' = SetColumn(rows, "Days in Studio",
                         [i \in 1..Len(rows) |->
                             compute_days_in_studio(rows[i], scan_col, scan_out_col, today)])
    /\ pc' = "summary"
    /\ UNCHANGED <<cols, today, scan_col, scan_out_col, inferFormat, inp, run, prev>>

(***************************************************************************)
(* SLA summary column (lines 212-213).                                     *)
(***************************************************************************)
sla_cols == {"Stills Out of SLA", "Model Out of SLA", "Mannequin Out of SLA"}

\* a summary that wants every flag late
sla_status_All(row) ==
    IF \A c \in sla_cols : row.c[c] = Str("LATE") THEN Str("LATE") ELSE Str("")

sla_status(row) ==
    IF \E c \in sla_cols : row.c[c] = Str("LATE") THEN Str("LATE") ELSE Str("")

SLASummary ==
    /\ pc = "summary"
    /\ cols' = WithColumn(cols, "SLA status")
    /\ rows' = SetColumn(rows, "SLA status", [i \in 1..Len(rows) |-> sla_status(rows[i])])
    /\ pc' = "done"
    /\ UNCHANGED <<today, scan_col, scan_out_col, inferFormat, inp, run, prev>>

(***************************************************************************)
(* A second run on the downloaded output (lines 222, 59): to_excel with    *)
(* index=False, then the loader.  Empty strings and NaT are empty cells    *)
(* of the workbook and load as NaN; the index is a fresh RangeIndex.       *)
(***************************************************************************)
Reload(x) == IF isna(x) \/ x = Str("") THEN NaN ELSE x

ReloadRows(rs) ==
    [i \in 1..Len(rs) |->
        [id |-> i, c |-> [k \in DOMAIN rs[i].c |-> Reload(rs[i].c[k])]]]

Rerun ==
    /\ pc = "done"
    /\ run < MaxRuns
    /\ run' = run + 1
    /\ prev' = rows
    /\ rows' = ReloadRows(rows)
    /\ scan_col' = NoCol
    /\ scan_out_col' = NoCol
    /\ inp' = [cols |-> cols, rows |-> rows']
    /\ pc' = "prune"
    /\ UNCHANGED <<cols, today, inferFormat>>

Next ==
    \/ Prune
    \/ ResolveStop
    \/ Resolve
    \/ AddColumns
    \/ ConvertDates
    \/ SLALogic
    \/ SLALogicRaise
    \/ AwaitingNote
    \/ AwaitingNoteRaise
    \/ DaysInStudio
    \/ SLASummary
    \/ Rerun

Spec == Init /\ [][Next]_vars

(***************************************************************************)
(* The date normaliser on its own: one date column of texts, converted by  *)
(* the loop of lines 143-145, under either pandas build.                   *)
(***************************************************************************)
NormInit ==
    /\ pc = "convert"
    /\ cols = <<"Photo Still Date">>
    /\ \E n \in 0..MaxRows : \E data \in [1..n -> [{"Photo Still Date"} -> TextCells]] :
          rows = MkRows(data)
    /\ inp = [cols |-> cols, rows |-> rows]
    /\ today \in Todays
    /\ scan_col = NoCol
    /\ scan_out_col = NoCol
    /\ inferFormat \in BOOLEAN
    /\ run = 1
    /\ prev = <<>>

NormNext == ConvertDates

NormSpec == NormInit /\ [][NormNext]_vars

(***************************************************************************)
(* Properties.                                                             *)
(***************************************************************************)
Max0(n) == IF n > 0 THEN n ELSE 0

HasCol(c) == c \in Range(cols)

\* a field of a record is known: the column exists and the cell holds a date
Known(r, c) == HasCol(c) /\ c \in DOMAIN r.c /\ r.c[c].t = "ts"

Categories == {sla_mapping[k] : k \in 1..Len(sla_mapping)}

\* the SLA stage of the current run is over, completed or raised
SlaOver == pc \in {"note", "studio", "summary", "done", "note raised", "sla raised"}

\* C1's end date: the upload date if known, else today
EndDay(r, m) == IF Known(r, m.upload_col) THEN r.c[m.upload_col].v ELSE today

Overage(r, m) == Max0(busday_count(r.c[m.photo_col].v, EndDay(r, m)) - 2)

\* C1: once the SLA stage is over, every record with a known photo date of a
\* category (whose photo and upload columns are in the table) carries
\* overage = max(0, businessDays(photo, end) - 2), end being the upload date
\* if known and today otherwise, and the flag is "LATE" exactly when the
\* overage is positive and empty otherwise.
C1_OverageAsClaimed ==
    SlaOver =>
        \A i \in 1..Len(rows) : \A m \in Categories :
            (Known(rows[i], m.photo_col) /\ HasCol(m.upload_col)) =>
                /\ rows[i].c[m.days_col] = IntCell(Overage(rows[i], m))
                /\ rows[i].c[m.flag_col] =
                       (IF Overage(rows[i], m) > 0 THEN Str("LATE") ELSE Str(""))

\* the residency the priority list of C2 gives a record
Residency(r) ==
    LET in_known == Known(r, "Scan In Date")
        out_known == Known(r, "Scan Out Date")
        blank == \A c \in shot_cols : ~Known(r, c)
    IN CASE in_known /\ out_known /\ blank -> Str("SCANNED OUT AND NEVER SHOT")
         [] out_known /\ ~(in_known /\ blank) -> Str("SCANNED OUT")
         [] ~out_known /\ in_known ->
                IntCell(busday_count(r.c["Scan In Date"].v, today))
         [] OTHER -> NaN

\* C2: once the residency is computed, every record's Days in Studio is the
\* value of the first matching branch of the priority list: never shot, then
\* scanned out, then the business days since scan-in, then blank.
C2_ResidencyPriority ==
    pc \in {"summary", "done"} =>
        \A i \in 1..Len(rows) : rows[i].c["Days in Studio"] = Residency(rows[i])

\* C2's case: a completed run with a record scanned in and out and never shot
C2_Witness ==
    /\ pc = "done"
    /\ \E i \in 1..Len(rows) :
          /\ Known(rows[i], "Scan In Date") /\ Known(rows[i], "Scan Out Date")
          /\ \A c \in shot_cols : ~Known(rows[i], c)
          /\ rows[i].c["Days in Studio"] = Str("SCANNED OUT AND NEVER SHOT")

\* the input table has a record and every cell of it holds a date
InputAllKnown ==
    /\ Len(inp.rows) > 0
    /\ \A i \in 1..Len(inp.rows) : \A c \in DOMAIN inp.rows[i].c : inp.rows[i].c[c].t = "ts"

\* C3: a missing category column never aborts the run: with every cell of the
\* table known, whatever category columns are absent, the SLA stage does not
\* raise; and with the upload column absent the elapsed days run to today.
C3_MissingColumnNeverAborts ==
    /\ InputAllKnown => pc # "sla raised"
    /\ pc \in {"note", "studio", "summary", "done"} =>
          \A i \in 1..Len(rows) : \A m \in Categories :
              (Known(rows[i], m.photo_col) /\ ~HasCol(m.upload_col)) =>
                  rows[i].c[m.days_col] =
                      IntCell(Max0(busday_count(rows[i].c[m.photo_col].v, today) - 2))

\* C4: once the note stage has run, every record with a known Stills photo
\* date, an unknown scan-out date (also for want of a scan-out column) and
\* more than 2 business days from the photo date to today carries the note.
C4_AwaitingNote ==
    pc \in {"studio", "summary", "done"} =>
        \A i \in 1..Len(rows) :
            ( /\ Known(rows[i], "Photo Still Date")
              /\ ~Known(rows[i], "Scan Out Date")
              /\ busday_count(rows[i].c["Photo Still Date"].v, today) > 2 )
            => rows[i].c["Notes"] = Str("Awaiting model shot")

Ids(rs) == [i \in 1..Len(rs) |-> rs[i].id]

\* the input records whose scan-in cell holds a date, in input order
KnownScanIn == SelectSeq(inp.rows, LAMBDA r : r.c["Scan In Date"].t = "ts")

\* C5: from the scan-in filter on, the records of the frame are exactly the
\* input records whose scan-in date is known, in input order; later stages
\* neither remove nor duplicate nor reorder a record.
C5_ExactlyKnownScanIn ==
    pc \in {"addcols", "convert", "sla", "note", "studio", "summary", "done",
            "sla raised", "note raised"} =>
        /\ Ids(rows) = Ids(KnownScanIn)
        /\ \A i \in 1..Len(rows) :
              rows[i].c["Scan In Date"] = KnownScanIn[i].c["Scan In Date"]

\* C5's case: a completed run that dropped one of two input records
C5_Witness ==
    /\ pc = "done"
    /\ Len(inp.rows) = 2
    /\ Len(rows) = 1
    /\ rows[1].id = 2

\* C6: in a completed run every record's SLA status is "LATE" if and only if
\* one of its three category flags is "LATE", and empty otherwise; a category
\* skipped for want of its photo column, or whose photo date is unknown, is
\* not breached.
C6_StatusIffAnyLate ==
    pc = "done" =>
        \A i \in 1..Len(rows) :
            /\ rows[i].c["SLA status"] \in {Str("LATE"), Str("")}
            /\ rows[i].c["SLA status"] = Str("LATE")
                  <=> \E m \in Categories : rows[i].c[m.flag_col] = Str("LATE")
            /\ \A m \in Categories :
                  ~Known(rows[i], m.photo_col) => rows[i].c[m.flag_col] # Str("LATE")
            /\ rows[i].c["SLA status"] = Str("LATE")
                  <=> \E m \in Categories :
                         /\ Known(rows[i], m.photo_col)
                         /\ Overage(rows[i], m) > 0

\* C6's case: a completed run with a late record one of whose categories was
\* skipped and another on time
C6_Witness ==
    /\ pc = "done"
    /\ \E i \in 1..Len(rows) :
          /\ rows[i].c["SLA status"] = Str("LATE")
          /\ \E m \in Categories : ~HasCol(m.photo_col)
          /\ \E m \in Categories : rows[i].c[m.flag_col] = Str("")

\* C7 as stated: a category whose photo column is absent gets neither of its
\* two columns in the output table.
C7_NoColumnsForSkipped ==
    pc = "done" =>
        \A m \in Categories :
            ~HasCol(m.photo_col) => ~HasCol(m.flag_col) /\ ~HasCol(m.days_col)

\* C7 amended: a category whose photo column is absent is skipped: no verdict
\* is computed, and its two columns are in the output table, blank (NaN) for
\* every record.
C7_SkippedColumnsBlank ==
    pc \in {"note", "studio", "summary", "done"} =>
        \A m \in Categories :
            ~HasCol(m.photo_col) =>
                /\ HasCol(m.flag_col) /\ HasCol(m.days_col)
                /\ \A i \in 1..Len(rows) :
                      rows[i].c[m.flag_col] = NaN /\ rows[i].c[m.days_col] = NaN

\* C7's case: a completed run over a record, one category skipped, another
\* evaluated
C7_Witness ==
    /\ pc = "done"
    /\ Len(rows) > 0
    /\ \E m \in Categories : ~HasCol(m.photo_col)
    /\ \E m \in Categories : HasCol(m.photo_col) /\ rows[1].c[m.flag_col] = Str("LATE")

SlaColumns ==
    sla_cols \cup {"Day(s) out of SLA - STILLS", "Day(s) out of SLA - MODEL",
                   "Day(s) out of SLA - MANNEQUIN", "SLA status"}

\* C8: a second run on the first run's output, with the same today, leaves the
\* three flags, the three overage values and the SLA status of every record
\* as the first run computed them (an empty flag and a blank cell are the
\* same empty cell of the workbook).
C8_SecondRunKeepsSla ==
    (run = 2 /\ pc = "done") =>
        /\ Len(rows) = Len(prev)
        /\ \A i \in 1..Len(rows) : \A c \in SlaColumns :
              Reload(rows[i].c[c]) = Reload(prev[i].c[c])

\* C9: the normaliser reads a text aa/bb/yyyy day first: it yields day aa of
\* month bb when that is a date, and unknown when neither reading is a date.
C9_DayFirst ==
    pc = "sla" =>
        \A i \in 1..Len(rows) :
            LET x == inp.rows[i].c["Photo Still Date"]
                y == rows[i].c["Photo Still Date"]
            IN x.t = "txt" =>
                 /\ ValidMD(TxtB(x), TxtA(x)) => y = Ts(Ord(TxtB(x), TxtA(x)))
                 /\ (~ValidMD(TxtB(x), TxtA(x)) /\ ~ValidMD(TxtA(x), TxtB(x))) => y = NaT

\* C10: in every completed run each record's Days in Studio is one of the two
\* fixed strings or the integer businessDays(scanIn, today), never blank, and
\* it is the integer exactly when the scan-out date is unknown or there is no
\* scan-out column.
C10_NeverBlank ==
    pc = "done" =>
        \A i \in 1..Len(rows) :
            LET d == rows[i].c["Days in Studio"]
                out_known == Known(rows[i], "Scan Out Date")
            IN /\ \/ d \in {Str("SCANNED OUT AND NEVER SHOT"), Str("SCANNED OUT")}
                  \/ d = IntCell(busday_count(rows[i].c["Scan In Date"].v, today))
               /\ d.t = "int" <=> ~out_known

\* C10's case: a completed run with one record in the studio (no scan-out
\* column) and its integer residency
C10_Witness ==
    /\ pc = "done"
    /\ ~HasCol("Scan Out Date")
    /\ \E i \in 1..Len(rows) : rows[i].c["Days in Studio"].t = "int"

=============================================================================
